---- MODULE Spec2Model ----
(***************************************************************************)
(* Model of the /map handler of evacuate/canvas.                           *)
(*                                                                         *)
(* Two variants of the handler exist in the repository: the adaptive one   *)
(* (src/main.go: the viewport is fitted to the active regions, the output  *)
(* is SVG or PNG with a footer) and the fixed one (src/unnamed/part_000:   *)
(* a hardcoded viewport, PNG only).  The variable mode selects the         *)
(* variant; everything else is one state machine per request, one action   *)
(* per step of mapHandler.                                                 *)
(*                                                                         *)
(* float64 values are modelled as exact rationals extended with +Inf,      *)
(* -Inf and NaN, with the IEEE-754 rules for the operations used (x/0,     *)
(* 0*Inf, comparisons).  Rounding error of the binary representation is    *)
(* not modelled.  Region ids are whole numbers, so that int(id) of the     *)
(* float64 property is the id itself.                                      *)
(***************************************************************************)
EXTENDS Integers, Sequences, FiniteSets, TLC

(***************************************************************************)
(* Bounds of the model.                                                    *)
(***************************************************************************)
MaxEntries == 2     \* entries of a scale payload
MaxFeatures == 2    \* features of the geometry file
MaxReq == 2         \* requests served concurrently
MaxProbe == 30      \* direct invocations of intensityToColor: -MaxProbe..MaxProbe

(***************************************************************************)
(* float64                                                                 *)
(***************************************************************************)
Abs(n) == IF n < 0 THEN -n ELSE n

RECURSIVE GCD(_, _)
GCD(a, b) == IF b = 0 THEN a ELSE GCD(b, a % b)

\* the finite value n/d, normalised (d > 0, lowest terms)
Fin(n, d) ==
    LET g == GCD(Abs(n), Abs(d))
        s == IF d < 0 THEN -1 ELSE 1
    IN  [k |-> "fin", n |-> s * (n \div g), d |-> s * (d \div g)]

PInf == [k |-> "+Inf", n |-> 1, d |-> 0]
NInf == [k |-> "-Inf", n |-> -1, d |-> 0]
NaN == [k |-> "NaN", n |-> 0, d |-> 0]

Sign(a) == IF a.n > 0 THEN 1 ELSE IF a.n < 0 THEN -1 ELSE 0

\* a + b
FAdd(a, b) ==
    IF a.k = "NaN" \/ b.k = "NaN" THEN NaN
    ELSE IF a.k = "fin" /\ b.k = "fin" THEN Fin(a.n * b.d + b.n * a.d, a.d * b.d)
    ELSE IF a.k = "fin" THEN b
    ELSE IF b.k = "fin" THEN a
    ELSE IF a.k = b.k THEN a ELSE NaN

FNeg(a) ==
    IF a.k = "fin" THEN Fin(-a.n, a.d)
    ELSE IF a.k = "+Inf" THEN NInf
    ELSE IF a.k = "-Inf" THEN PInf ELSE NaN

\* a - b
FSub(a, b) == FAdd(a, FNeg(b))

\* a * b (cross-reduced before multiplying)
FMul(a, b) ==
    IF a.k = "NaN" \/ b.k = "NaN" THEN NaN
    ELSE IF a.k = "fin" /\ b.k = "fin" THEN
        LET g1 == GCD(Abs(a.n), b.d)
            g2 == GCD(Abs(b.n), a.d)
        IN  Fin((a.n \div g1) * (b.n \div g2), (a.d \div g2) * (b.d \div g1))
    ELSE IF Sign(a) * Sign(b) = 0 THEN NaN
    ELSE IF Sign(a) * Sign(b) > 0 THEN PInf ELSE NInf

\* a / b for finite a, b: x/0 is +Inf or -Inf by the sign of x, 0/0 is NaN
FDiv(a, b) ==
    IF b.n = 0 THEN (IF a.n > 0 THEN PInf ELSE IF a.n < 0 THEN NInf ELSE NaN)
    ELSE FMul(a, Fin(b.d, b.n))

\* a < b: false when either is NaN
FLess(a, b) ==
    IF a.k = "NaN" \/ b.k = "NaN" THEN FALSE
    ELSE IF a.k = "fin" /\ b.k = "fin" THEN a.n * b.d < b.n * a.d
    ELSE IF a.k = b.k THEN FALSE
    ELSE a.k = "-Inf" \/ b.k = "+Inf"

FLeq(a, b) == FLess(a, b) \/ (a.k # "NaN" /\ a = b)

min(a, b) == IF FLess(a, b) THEN a ELSE b

max(a, b) == IF FLess(b, a) THEN a ELSE b

\* fmt.Sprintf("%.1f", v): one decimal, round half to even; the sign is kept
\* for a negative value that rounds to zero ("-0.0")
Format1(v) ==
    IF v.k # "fin" THEN [s |-> v.k, neg |-> FALSE, tenths |-> 0]
    ELSE LET m == Abs(v.n) * 10
             q == m \div v.d
             r2 == 2 * (m % v.d)
             up == r2 > v.d \/ (r2 = v.d /\ q % 2 = 1)
         IN  [s |-> "num", neg |-> v.n < 0, tenths |-> IF up THEN q + 1 ELSE q]

(***************************************************************************)
(* Colour policy                                                           *)
(***************************************************************************)
intensityToColor(scale) ==
    CASE scale = 0 -> "#27272a"
      [] scale = 1 -> "#bae6fd"
      [] scale = 2 -> "#4ade80"
      [] scale = 3 -> "#facc15"
      [] scale = 4 -> "#f97316"
      [] scale = 5 -> "#dc2626"
      [] scale = 6 -> "#86198f"
      [] scale = 7 -> "#500724"
      [] OTHER -> IF scale > 6 THEN "#4a044e"
                  ELSE IF scale > 5 THEN "#b91c1c"
                  ELSE "#27272a"

(***************************************************************************)
(* Intensity table: scaleMap is a Go map[int]int, here a function whose    *)
(* domain is the set of keys present.                                      *)
(***************************************************************************)
EmptyMap == << >>

\* scaleMap[id]: the zero value when the key is absent
MapGet(sm, id) == IF id \in DOMAIN sm THEN sm[id] ELSE 0

\* a plausible slip: the first entry of an id wins
StoreScaleFirst(sm, id, v) ==
    IF id \in DOMAIN sm THEN sm
    ELSE [k \in DOMAIN sm \cup {id} |-> IF k = id THEN v ELSE sm[k]]

\* scaleMap[intensity.ID] = intensity.Scale
StoreScale(sm, id, v) ==
    [k \in DOMAIN sm \cup {id} |-> IF k = id THEN v ELSE sm[k]]

\* a plausible slip: 8 accepted
ScaleInvalidOffByOne(s) == s < 0 \/ s > 8

\* intensity.Scale < 0 || intensity.Scale > 7
ScaleInvalid(s) == s < 0 \/ s > 7

(***************************************************************************)
(* Geometry: a feature carries the property "id" (numeric, missing or a    *)
(* string) and a geometry (nil, or a type with its Polygon / MultiPolygon  *)
(* coordinates, as go.geojson's Geometry struct holds them).               *)
(***************************************************************************)
Pt(lon, lat) == <<Fin(lon, 1), Fin(lat, 1)>>

Feature(idkind, id, type, polygon, multi) ==
    [idkind |-> idkind, id |-> id, type |-> type,
     Polygon |-> polygon, MultiPolygon |-> multi]

RECURSIVE Flatten(_)
Flatten(ss) == IF ss = << >> THEN << >> ELSE Head(ss) \o Flatten(Tail(ss))

\* the rings the handler walks for a feature: Polygon's rings, MultiPolygon's
\* rings polygon by polygon, none for any other type
Rings(f) ==
    IF f.type = "Polygon" THEN f.Polygon
    ELSE IF f.type = "MultiPolygon" THEN Flatten(f.MultiPolygon)
    ELSE << >>

(***************************************************************************)
(* Viewport: calculateBounds and the two projections.                      *)
(***************************************************************************)
CANVAS_WIDTH == 1280
CANVAS_HEIGHT == 720
MAP_WIDTH == 500
MAP_HEIGHT == 550
LON_MIN == 122
LON_MAX == 146
LAT_MIN == 24
LAT_MAX == 46

Box(minLon, minLat, maxLon, maxLat) ==
    [minLon |-> minLon, minLat |-> minLat, maxLon |-> maxLon, maxLat |-> maxLat]

\* the initial values of calculateBounds
SentinelBox == Box(Fin(180, 1), Fin(90, 1), Fin(-180, 1), Fin(-90, 1))

RECURSIVE ExpandBox(_, _)
ExpandBox(b, coords) ==
    IF coords = << >> THEN b
    ELSE LET lon == Head(coords)[1]
             lat == Head(coords)[2]
         IN  ExpandBox(Box(min(b.minLon, lon), min(b.minLat, lat),
                           max(b.maxLon, lon), max(b.maxLat, lat)),
                       Tail(coords))

\* the loop of calculateBounds from feature i on: the box, or a panic of the
\* unchecked type assertion on "id" (every feature, before the scale test) or
\* of the nil geometry of an active feature
RECURSIVE boundsLoop(_, _, _, _)
boundsLoop(features, scaleMap, i, b) ==
    IF i > Len(features) THEN [panic |-> FALSE, box |-> b]
    ELSE LET f == features[i] IN
         IF f.idkind # "num" THEN [panic |-> TRUE, box |-> b]
         ELSE IF MapGet(scaleMap, f.id) = 0 THEN boundsLoop(features, scaleMap, i + 1, b)
         ELSE IF f.type = "nil" THEN [panic |-> TRUE, box |-> b]
         ELSE boundsLoop(features, scaleMap, i + 1, ExpandBox(b, Flatten(Rings(f))))

calculateBounds(features, scaleMap) == boundsLoop(features, scaleMap, 1, SentinelBox)

\* math.Cos(lat * math.Pi / 180.0), to three decimals, at the centre
\* latitudes the geometry of this model produces (whole and half degrees
\* between 30 and 40, and 0 for the sentinel box)
CosDeg(lat) ==
    LET h == (2 * lat.n) \div lat.d IN
    CASE h = 0 -> Fin(1, 1)
      [] h = 60 -> Fin(866, 1000)
      [] h = 65 -> Fin(843, 1000)
      [] h = 70 -> Fin(819, 1000)
      [] h = 75 -> Fin(793, 1000)
      [] h = 80 -> Fin(766, 1000)

centerLatOf(b) == FDiv(FAdd(b.maxLat, b.minLat), Fin(2, 1))

centerLonOf(b) == FDiv(FAdd(b.maxLon, b.minLon), Fin(2, 1))

lonCorrectionOf(b) == CosDeg(centerLatOf(b))

\* the single scale factor of the adaptive projection
scaleOf(b) ==
    LET margin == Fin(1, 10)
        effectiveWidth == FMul(Fin(CANVAS_WIDTH, 1), FSub(Fin(1, 1), FMul(Fin(2, 1), margin)))
        effectiveHeight == FMul(Fin(CANVAS_HEIGHT, 1), FSub(Fin(1, 1), FMul(Fin(2, 1), margin)))
        lonSpan == FMul(FSub(b.maxLon, b.minLon), lonCorrectionOf(b))
        latSpan == FSub(b.maxLat, b.minLat)
        scaleX == FDiv(effectiveWidth, lonSpan)
        scaleY == FDiv(effectiveHeight, latSpan)
    IN  min(scaleX, scaleY)

\* funcToScreen of the adaptive handler, for the box b of the request
funcToScreen(b, lon, lat) ==
    LET centerX == Fin(CANVAS_WIDTH, 2)
        centerY == Fin(CANVAS_HEIGHT, 2)
        x == FAdd(FMul(FMul(FSub(lon, centerLonOf(b)), lonCorrectionOf(b)), scaleOf(b)), centerX)
        y == FAdd(FMul(FSub(centerLatOf(b), lat), scaleOf(b)), centerY)
    IN  <<x, y>>

\* funcToScreen of the fixed handler
funcToScreenFixed(lon, lat) ==
    LET marginX == Fin(CANVAS_WIDTH - MAP_WIDTH, 2)
        marginY == Fin(CANVAS_HEIGHT - MAP_HEIGHT, 2)
        lonScale == Fin(MAP_WIDTH, LON_MAX - LON_MIN)
        latScale == Fin(MAP_HEIGHT, LAT_MAX - LAT_MIN)
        x == FAdd(FMul(FSub(lon, Fin(LON_MIN, 1)), lonScale), marginX)
        y == FAdd(FMul(FSub(Fin(LAT_MAX, 1), lat), latScale), marginY)
    IN  <<x, y>>

(***************************************************************************)
(* Inputs: the query of a request and the geometry file.                   *)
(***************************************************************************)
Entry(id, scale) == [ID |-> id, Scale |-> scale]

\* the scale parameter: absent (or empty), not unmarshalable into
\* []IntensityQuery, or an array of entries
AbsentScale == [kind |-> "absent", entries |-> << >>]
MalformedScale == [kind |-> "malformed", entries |-> << >>]
ArrayScale(es) == [kind |-> "array", entries |-> es]

Query(scale, format, footer) == [scale |-> scale, format |-> format, footer |-> footer]

SeqsUpTo(S, n) == UNION {[1..k -> S] : k \in 0..n}

EntrySet == {Entry(id, sc) : id \in {1, 2}, sc \in {-1, 0, 5, 7, 8}}

RichScales ==
    {AbsentScale, MalformedScale} \cup {ArrayScale(es) : es \in SeqsUpTo(EntrySet, MaxEntries)}

SmallScales ==
    {ArrayScale(<< >>), ArrayScale(<<Entry(2, 7), Entry(1, 0)>>),
     ArrayScale(<<Entry(1, 5), Entry(2, 7)>>)}

FeatA == Feature("num", 1, "Polygon", <<<<Pt(130, 30), Pt(140, 30), Pt(140, 40)>>>>, << >>)
FeatB == Feature("num", 2, "Polygon", <<<<Pt(130, 35), Pt(140, 35)>>>>, << >>)
FeatC == Feature("num", 2, "Polygon", <<<<Pt(135, 35), Pt(135, 35)>>>>, << >>)
FeatD == Feature("num", 1, "MultiPolygon", << >>,
                 <<<<<<Pt(130, 30), Pt(135, 35)>>>>, <<<<Pt(135, 40), Pt(140, 40)>>>>>>)
FeatE == Feature("num", 2, "Point", << >>, << >>)
FeatF == Feature("num", 1, "Polygon", << >>, << >>)
FeatG == Feature("missing", 0, "Polygon", <<<<Pt(130, 30), Pt(140, 40)>>>>, << >>)
FeatH == Feature("string", 0, "Polygon", <<<<Pt(130, 30), Pt(140, 40)>>>>, << >>)
FeatI == Feature("num", 2, "nil", << >>, << >>)
FeatJ == Feature("num", 1, "Polygon", <<<<Pt(135, 30), Pt(135, 40)>>>>, << >>)

FeatureSet == {FeatA, FeatB, FeatC, FeatD, FeatE, FeatF, FeatG, FeatH, FeatI, FeatJ}

\* japan.geojson: unreadable, not a feature collection, or its features
MissingGeo == [file |-> "missing", features |-> << >>]
GarbageGeo == [file |-> "garbage", features |-> << >>]
OkGeo(fs) == [file |-> "ok", features |-> fs]

RichGeo == {MissingGeo, GarbageGeo} \cup {OkGeo(fs) : fs \in SeqsUpTo(FeatureSet, MaxFeatures)}

SmallGeo == {OkGeo(<<FeatA, FeatB>>)}

Modes == {"adaptive", "fixed"}

Req == 1..MaxReq

(***************************************************************************)
(* State                                                                   *)
(***************************************************************************)
VARIABLES
    mode,         \* which variant of the handler is deployed
    geo,          \* japan.geojson, static
    query,        \* query[r]: the query parameters of request r
    pc,           \* pc[r]: where mapHandler stands for request r
    intensities,  \* intensities[r]: the unmarshalled scale array
    idx,          \* idx[r]: position of the validation loop
    scaleMap,     \* scaleMap[r]
    geoRead,      \* geoRead[r]: os.ReadFile("japan.geojson") was called
    box,          \* box[r]: minLon, minLat, maxLon, maxLat
    scene,        \* scene[r]: what was written to buf through canvas
    fidx,         \* fidx[r]: position of the feature loop
    resp,         \* resp[r]: what was written to the http.ResponseWriter
    colorIn,      \* argument of a direct call of intensityToColor
    colorOut      \* its result, "" before the call

vars == <<mode, geo, query, pc, intensities, idx, scaleMap, geoRead, box, scene,
          fidx, resp, colorIn, colorOut>>

NoBox == Box(NaN, NaN, NaN, NaN)

NoImage == [fmt |-> "none", scene |-> << >>, footer |-> ""]

NoResp == [status |-> 0, ctype |-> "", text |-> "", id |-> 0, value |-> 0, image |-> NoImage]

\* http.Error(w, text, status); id and value are the numbers the text names
ErrResp(status, text, id, value) ==
    [status |-> status, ctype |-> "text/plain; charset=utf-8", text |-> text,
     id |-> id, value |-> value, image |-> NoImage]

\* w.Header().Set("Content-Type", ctype); w.Write(image)
ImageResp(ctype, image) ==
    [status |-> 200, ctype |-> ctype, text |-> "", id |-> 0, value |-> 0, image |-> image]

SvgOpen == [el |-> "svg", d |-> << >>, fill |-> ""]
SvgClose == [el |-> "/svg", d |-> << >>, fill |-> ""]
BackgroundRect == [el |-> "rect", d |-> << >>, fill |-> "#18181b"]
PathEl(d, fill) == [el |-> "path", d |-> d, fill |-> fill]

InitLocals(open) ==
    /\ pc = [r \in Req |-> IF r \in open THEN "start" ELSE "closed"]
    /\ intensities = [r \in Req |-> << >>]
    /\ idx = [r \in Req |-> 0]
    /\ scaleMap = [r \in Req |-> EmptyMap]
    /\ geoRead = [r \in Req |-> FALSE]
    /\ box = [r \in Req |-> NoBox]
    /\ scene = [r \in Req |-> << >>]
    /\ fidx = [r \in Req |-> 0]
    /\ resp = [r \in Req |-> NoResp]

NoQuery == Query(AbsentScale, "png", "")

\* the inputs of a single request: the scale payload ranges widely over a
\* plain geometry file, or the geometry file ranges widely under a few
\* payloads, or a footer is given
Inputs ==
    {<<sc, g, f>> : sc \in RichScales, g \in SmallGeo, f \in {<<"svg", "">>, <<"png", "">>}}
    \cup {<<sc, g, f>> : sc \in SmallScales, g \in RichGeo, f \in {<<"svg", "">>}}
    \cup {<<sc, g, f>> : sc \in SmallScales, g \in SmallGeo, f \in {<<"png", "caption">>}}

\* one request
Init ==
    /\ mode \in Modes
    /\ \E in \in Inputs :
          /\ geo = in[2]
          /\ query = [r \in Req |-> IF r = 1 THEN Query(in[1], in[3][1], in[3][2]) ELSE NoQuery]
    /\ InitLocals({1})
    /\ colorIn = 0
    /\ colorOut = ""

ConcScales == {ArrayScale(<<Entry(1, 5)>>), ArrayScale(<<Entry(2, 7), Entry(1, 0)>>),
               ArrayScale(<<Entry(1, 8)>>)}

ConcGeo == {OkGeo(<<FeatA, FeatB>>), OkGeo(<<FeatG>>)}

\* MaxReq requests in flight at once, over the same geometry file
InitConc ==
    /\ mode \in Modes
    /\ geo \in ConcGeo
    /\ query \in [Req -> {Query(sc, "svg", "") : sc \in ConcScales}]
    /\ InitLocals(Req)
    /\ colorIn = 0
    /\ colorOut = ""

InitColor ==
    /\ mode = "adaptive"
    /\ geo = MissingGeo
    /\ query = [r \in Req |-> NoQuery]
    /\ InitLocals({})
    /\ colorIn \in (-MaxProbe)..MaxProbe
    /\ colorOut = ""

(***************************************************************************)
(* mapHandler, step by step                                                *)
(***************************************************************************)
\* http.Error(...); return
Fail(r, status, text, id, value) ==
    /\ resp' = [resp EXCEPT ![r] = ErrResp(status, text, id, value)]
    /\ pc' = [pc EXCEPT ![r] = "done"]

\* a run-time panic of the handler goroutine: net/http recovers it and closes
\* the connection; nothing is written to the ResponseWriter
Panic(r) ==
    /\ pc' = [pc EXCEPT ![r] = "panicked"]
    /\ UNCHANGED resp

\* r.URL.Query().Get("scale") and json.Unmarshal
Parse(r) ==
    /\ pc[r] = "start"
    /\ LET sc == query[r].scale IN
       IF sc.kind = "absent" THEN
            /\ Fail(r, 400, "scale parameter is required", 0, 0)
            /\ UNCHANGED <<intensities, idx, scaleMap>>
       ELSE IF sc.kind = "malformed" THEN
            /\ Fail(r, 400, "Invalid scale data format", 0, 0)
            /\ UNCHANGED <<intensities, idx, scaleMap>>
       ELSE /\ intensities' = [intensities EXCEPT ![r] = sc.entries]
            /\ scaleMap' = [scaleMap EXCEPT ![r] = EmptyMap]
            /\ idx' = [idx EXCEPT ![r] = 1]
            /\ pc' = [pc EXCEPT ![r] = IF sc.entries = << >> THEN "read" ELSE "validate"]
            /\ UNCHANGED resp
    /\ UNCHANGED <<mode, geo, query, geoRead, box, scene, fidx, colorIn, colorOut>>

\* a plausible slip: scaleMap a package-level variable, one map for all requests
PutScaleShared(maps, r, id, v) == [q \in DOMAIN maps |-> StoreScale(maps[q], id, v)]

\* scaleMap is a local of the invocation: the store of request r changes the
\* map of request r alone
PutScale(maps, r, id, v) == [maps EXCEPT ![r] = StoreScale(maps[r], id, v)]

\* one iteration of the validation loop
Validate(r) ==
    /\ pc[r] = "validate"
    /\ LET intensity == intensities[r][idx[r]] IN
       IF ScaleInvalid(intensity.Scale) THEN
            /\ Fail(r, 400, "Invalid scale value for ID", intensity.ID, intensity.Scale)
            /\ UNCHANGED <<idx, scaleMap>>
       ELSE /\ scaleMap' = PutScale(scaleMap, r, intensity.ID, intensity.Scale)
            /\ idx' = [idx EXCEPT ![r] = @ + 1]
            /\ pc' = [pc EXCEPT ![r] = IF idx[r] = Len(intensities[r]) THEN "read" ELSE "validate"]
            /\ UNCHANGED resp
    /\ UNCHANGED <<mode, geo, query, intensities, geoRead, box, scene, fidx, colorIn, colorOut>>

\* os.ReadFile("japan.geojson") and geojson.UnmarshalFeatureCollection
ReadGeo(r) ==
    /\ pc[r] = "read"
    /\ geoRead' = [geoRead EXCEPT ![r] = TRUE]
    /\ IF geo.file = "missing" THEN Fail(r, 500, "Failed to read geojson", 0, 0)
       ELSE IF geo.file = "garbage" THEN Fail(r, 500, "Failed to unmarshal geojson", 0, 0)
       ELSE /\ pc' = [pc EXCEPT ![r] = IF mode = "adaptive" THEN "bounds" ELSE "canvas"]
            /\ UNCHANGED resp
    /\ UNCHANGED <<mode, geo, query, intensities, idx, scaleMap, box, scene, fidx,
                   colorIn, colorOut>>

\* minLon, minLat, maxLon, maxLat := calculateBounds(fc, scaleMap)  (adaptive)
CalcBounds(r) ==
    /\ pc[r] = "bounds"
    /\ LET res == calculateBounds(geo.features, scaleMap[r]) IN
       IF res.panic THEN Panic(r) /\ UNCHANGED box
       ELSE /\ box' = [box EXCEPT ![r] = res.box]
            /\ pc' = [pc EXCEPT ![r] = "canvas"]
            /\ UNCHANGED resp
    /\ UNCHANGED <<mode, geo, query, intensities, idx, scaleMap, geoRead, scene, fidx,
                   colorIn, colorOut>>

\* canvas.Start(...); canvas.Rect(...)
StartCanvas(r) ==
    /\ pc[r] = "canvas"
    /\ scene' = [scene EXCEPT ![r] = <<SvgOpen, BackgroundRect>>]
    /\ fidx' = [fidx EXCEPT ![r] = 1]
    /\ pc' = [pc EXCEPT ![r] = IF geo.features = << >> THEN "finish" ELSE "paths"]
    /\ UNCHANGED <<mode, geo, query, intensities, idx, scaleMap, geoRead, box, resp,
                   colorIn, colorOut>>

\* one ring as path data: "M x y L x y ... Z", each number through "%.1f"
RingPath(r, ring) ==
    [j \in 1..Len(ring) |->
        LET p == IF mode = "adaptive" THEN funcToScreen(box[r], ring[j][1], ring[j][2])
                 ELSE funcToScreenFixed(ring[j][1], ring[j][2])
        IN  <<Format1(p[1]), Format1(p[2])>>]

\* finalPath of a feature: its rings' paths in order
FinalPath(r, f) == [j \in 1..Len(Rings(f)) |-> RingPath(r, Rings(f)[j])]

\* a plausible slip: the new path is put under the paths drawn so far
AppendPathUnder(sc, el) == <<sc[1], sc[2], el>> \o SubSeq(sc, 3, Len(sc))

\* canvas.Path(finalPath, style) writes the element at the end of buf
AppendPath(sc, el) == Append(sc, el)

\* one iteration of the feature loop
BuildPath(r) ==
    /\ pc[r] = "paths"
    /\ LET feature == geo.features[fidx[r]]
           scaleValue == MapGet(scaleMap[r], feature.id)
           fillColor == intensityToColor(scaleValue)
       IN  IF feature.idkind # "num" THEN
                /\ Fail(r, 500, "Invalid ID format in GeoJSON", 0, 0)
                /\ UNCHANGED <<scene, fidx>>
           ELSE IF feature.type = "nil" THEN
                /\ Panic(r)
                /\ UNCHANGED <<scene, fidx>>
           ELSE /\ scene' = [scene EXCEPT ![r] = AppendPath(@, PathEl(FinalPath(r, feature), fillColor))]
                /\ fidx' = [fidx EXCEPT ![r] = @ + 1]
                /\ pc' = [pc EXCEPT ![r] = IF fidx[r] = Len(geo.features) THEN "finish" ELSE "paths"]
                /\ UNCHANGED resp
    /\ UNCHANGED <<mode, geo, query, intensities, idx, scaleMap, geoRead, box, colorIn, colorOut>>

\* what svgToPNG can return: the PNG, or the error of one of its collaborators
PngOutcomes ==
    IF mode = "adaptive" THEN {"ok", "read icon", "load font", "draw text", "encode png"}
    ELSE {"ok", "read icon", "encode png"}

\* the footer drawn on the PNG (adaptive handler only)
FooterText(r) ==
    IF mode = "fixed" THEN ""
    ELSE IF query[r].footer = "" THEN "Code available under the MIT License (GitHub: evacuate)."
    ELSE query[r].footer

\* canvas.End() and the response
Finish(r) ==
    /\ pc[r] = "finish"
    /\ scene' = [scene EXCEPT ![r] = Append(@, SvgClose)]
    /\ pc' = [pc EXCEPT ![r] = "done"]
    /\ IF mode = "adaptive" /\ query[r].format = "svg" THEN
            resp' = [resp EXCEPT ![r] =
                        ImageResp("image/svg+xml", [fmt |-> "svg", scene |-> scene'[r], footer |-> ""])]
       ELSE \E out \in PngOutcomes :
            resp' = [resp EXCEPT ![r] =
                        IF out = "ok" THEN
                            ImageResp("image/png", [fmt |-> "png", scene |-> scene'[r], footer |-> FooterText(r)])
                        ELSE ErrResp(500, "Failed to convert svg to png", 0, 0)]
    /\ UNCHANGED <<mode, geo, query, intensities, idx, scaleMap, geoRead, box, fidx,
                   colorIn, colorOut>>

Next ==
    \E r \in Req :
        \/ Parse(r)
        \/ Validate(r)
        \/ ReadGeo(r)
        \/ CalcBounds(r)
        \/ StartCanvas(r)
        \/ BuildPath(r)
        \/ Finish(r)

Spec == Init /\ [][Next]_vars

SpecConc == InitConc /\ [][Next]_vars

\* a direct call of the colour policy
ApplyColor ==
    /\ colorOut = ""
    /\ colorOut' = intensityToColor(colorIn)
    /\ UNCHANGED <<mode, geo, query, pc, intensities, idx, scaleMap, geoRead, box, scene,
                   fidx, resp, colorIn>>

NextColor == ApplyColor

SpecColor == InitColor /\ [][NextColor]_vars

(***************************************************************************)
(* Properties                                                              *)
(***************************************************************************)
Ended(r) == pc[r] \in {"done", "panicked"}

Entries(r) == query[r].scale.entries

IsArray(r) == query[r].scale.kind = "array"

BadEntries(r) == {i \in 1..Len(Entries(r)) : Entries(r)[i].Scale \notin 0..7}

ValidRequest(r) == IsArray(r) /\ BadEntries(r) = {}

\* the scale of the last entry of es with the given id, 0 when there is none
LastScale(es, id) ==
    LET I == {i \in 1..Len(es) : es[i].ID = id} IN
    IF I = {} THEN 0 ELSE es[CHOOSE i \in I : \A j \in I : j <= i].Scale

PathCount(sc) == Cardinality({k \in 1..Len(sc) : sc[k].el = "path"})

\* C1: a scale array with an entry outside [0,7] is answered 400 with the id
\* and the value of the (first) offending entry, the geometry file is never
\* read and nothing is drawn or written as an image; an array whose entries
\* are all within [0,7], 7 included, is never answered with that error.
C1_OutOfRangeRejected ==
    \A r \in Req :
        /\ (IsArray(r) /\ BadEntries(r) # {}) =>
              /\ ~geoRead[r]
              /\ scene[r] = << >>
              /\ resp[r].image = NoImage
              /\ pc[r] # "panicked"
              /\ Ended(r) =>
                    LET i == CHOOSE i \in BadEntries(r) : \A j \in BadEntries(r) : i <= j IN
                    /\ resp[r].status = 400
                    /\ resp[r].text = "Invalid scale value for ID"
                    /\ resp[r].id = Entries(r)[i].ID
                    /\ resp[r].value = Entries(r)[i].Scale
        /\ ValidRequest(r) => resp[r].text # "Invalid scale value for ID"

\* a valid entry with scale 7 precedes an entry with scale 8: 400 names the latter
C1_Witness ==
    \E r \in Req :
        /\ Entries(r) = <<Entry(1, 7), Entry(2, 8)>>
        /\ pc[r] = "done"
        /\ resp[r].status = 400
        /\ resp[r].id = 2
        /\ resp[r].value = 8
        /\ MapGet(scaleMap[r], 1) = 7

\* C2 (as claimed): a valid request over a geometry file with a feature whose
\* "id" is missing or not numeric ends with a 500 "Invalid ID format" response,
\* in the fixed and in the adaptive handler; the handler never crashes.
C2_BadIdIs500 ==
    \A r \in Req :
        (/\ ValidRequest(r)
         /\ geo.file = "ok"
         /\ \E i \in 1..Len(geo.features) : geo.features[i].idkind # "num"
         /\ \A i \in 1..Len(geo.features) : geo.features[i].type # "nil"
         /\ Ended(r))
        => /\ pc[r] = "done"
           /\ resp[r].status = 500
           /\ resp[r].text = "Invalid ID format in GeoJSON"

\* the documented colour table
DocumentedColor(s) ==
    CASE s = 0 -> "#27272a"
      [] s = 1 -> "#bae6fd"
      [] s = 2 -> "#4ade80"
      [] s = 3 -> "#facc15"
      [] s = 4 -> "#f97316"
      [] s = 5 -> "#dc2626"
      [] s = 6 -> "#86198f"
      [] s = 7 -> "#500724"
      [] s = 8 -> "#4a044e"
      [] s = 9 -> "#b91c1c"
      [] OTHER -> "#27272a"

\* C3 (as claimed): intensityToColor returns the documented colour for 0..7,
\* #4a044e for 8, #b91c1c for 9 and the severity-0 colour for anything else.
C3_ColorTable == colorOut # "" => colorOut = DocumentedColor(colorIn)

\* C4 (as claimed): in adaptive mode the box returned by calculateBounds has
\* minLon <= maxLon and minLat <= maxLat and is never the sentinel box.
C4_BoxOrdered ==
    \A r \in Req :
        (mode = "adaptive" /\ box[r] # NoBox) =>
            /\ FLeq(box[r].minLon, box[r].maxLon)
            /\ FLeq(box[r].minLat, box[r].maxLat)
            /\ box[r] # SentinelBox

InsetX(x) == FLeq(Fin(128, 1), x) /\ FLeq(x, Fin(1152, 1))

InsetY(y) == FLeq(Fin(72, 1), y) /\ FLeq(y, Fin(648, 1))

CentreAndCornersFit(b) ==
    /\ funcToScreen(b, centerLonOf(b), centerLatOf(b)) = <<Fin(640, 1), Fin(360, 1)>>
    /\ \A lon \in {b.minLon, b.maxLon}, lat \in {b.minLat, b.maxLat} :
          LET p == funcToScreen(b, lon, lat) IN InsetX(p[1]) /\ InsetY(p[2])

\* the box was expanded by at least one coordinate of an active region
BoxFromActive(r) == mode = "adaptive" /\ box[r] # NoBox /\ box[r] # SentinelBox

\* C5 (as claimed): for every box computed from at least one active region,
\* with the longitude correction in (0,1], the projection maps the box's
\* midpoint to (640, 360) and its four corners into [128,1152] x [72,648],
\* boxes with a zero longitude or latitude span included.
C5_ProjectionFits ==
    \A r \in Req :
        (/\ BoxFromActive(r)
         /\ FLess(Fin(0, 1), lonCorrectionOf(box[r]))
         /\ FLeq(lonCorrectionOf(box[r]), Fin(1, 1)))
        => CentreAndCornersFit(box[r])

\* C6: once the table of a valid request is built, every id resolves to the
\* scale of the last entry with that id, 0 when there is none, and the fill
\* of every region drawn is the colour of that severity.
C6_LastWriteWins ==
    \A r \in Req :
        (ValidRequest(r) /\ pc[r] \notin {"closed", "start", "validate"}) =>
            /\ \A id \in 0..3 : MapGet(scaleMap[r], id) = LastScale(Entries(r), id)
            /\ \A k \in 1..Len(scene[r]) :
                  scene[r][k].el = "path" =>
                      \E i \in 1..Len(geo.features) :
                          /\ scene[r][k].d = FinalPath(r, geo.features[i])
                          /\ scene[r][k].fill =
                                intensityToColor(LastScale(Entries(r), geo.features[i].id))

\* [{id:1,scale:5},{id:1,scale:7}]: region 1 is drawn with the colour of 7,
\* region 2, absent from the table, with the colour of 0
C6_Witness ==
    \E r \in Req :
        /\ Entries(r) = <<Entry(1, 5), Entry(1, 7)>>
        /\ geo.features = <<FeatA, FeatB>>
        /\ pc[r] = "done"
        /\ resp[r].status = 200
        /\ scene[r][3].fill = "#500724"
        /\ scene[r][4].fill = "#27272a"

\* features with at least one ring
WithRings == {i \in 1..Len(geo.features) : Rings(geo.features[i]) # << >>}

\* C7 (as claimed): the path elements of a successful format=svg response are
\* as many as the features with a nonzero ring count; a feature with an
\* unsupported geometry type or no rings yields no path element.
C7_OnePathPerRingedFeature ==
    \A r \in Req :
        (pc[r] = "done" /\ resp[r].status = 200 /\ resp[r].image.fmt = "svg") =>
            PathCount(resp[r].image.scene) = Cardinality(WithRings)

\* C8 (as claimed): every request ends either in an error response (400 or
\* 500) without image bytes or in a 200 response with the complete image and
\* its Content-Type.
C8_ErrorOrImage ==
    \A r \in Req :
        Ended(r) =>
            \/ /\ resp[r].status \in {400, 500}
               /\ resp[r].image = NoImage
               /\ resp[r].text # ""
            \/ /\ resp[r].status = 200
               /\ resp[r].ctype \in {"image/svg+xml", "image/png"}
               /\ resp[r].image.fmt \in {"svg", "png"}
               /\ resp[r].image.scene = scene[r]
               /\ scene[r][Len(scene[r])] = SvgClose

Pos(r) == <<pc[r], idx[r], fidx[r]>>

Locals(r) == <<intensities[r], scaleMap[r], geoRead[r], box[r], scene[r], resp[r]>>

\* a step that is not a step of request r leaves everything of r as it was
IsolatedStep == \A r \in Req : Pos(r)' = Pos(r) => Locals(r)' = Locals(r)

\* two finished requests with the same query got the same answer
SameOutput ==
    \A r1, r2 \in Req :
        (Ended(r1) /\ Ended(r2) /\ query[r1] = query[r2]) =>
            /\ (resp[r1].status = 200 /\ resp[r2].status = 200) => resp[r1].image = resp[r2].image
            /\ mode = "adaptive" => (pc[r1] = pc[r2] /\ resp[r1] = resp[r2])

\* C9: with requests interleaved step by step, no step of one request changes
\* the table, box, scene or response of another, and two requests with the
\* same query end with the same response (byte-identical SVG).
C9_RequestsIsolated == [][IsolatedStep]_vars /\ []SameOutput

\* two requests with the same payload, served side by side, both answered
\* with the same SVG drawn from region 1 at severity 5
C9_Witness ==
    \E r1, r2 \in Req :
        /\ r1 # r2
        /\ query[r1] = query[r2]
        /\ Entries(r1) = <<Entry(1, 5)>>
        /\ pc[r1] = "done" /\ pc[r2] = "done"
        /\ resp[r1].status = 200 /\ resp[r1].image.fmt = "svg"
        /\ resp[r2].image = resp[r1].image
        /\ resp[r1].image.scene[3].fill = "#dc2626"

\* C10: in every scene the background rectangle comes first (right after the
\* svg element is opened) and the i-th path element is the path of the i-th
\* feature of the collection, whatever the ids, the severities and the order
\* of the payload's entries.
C10_FeatureOrder ==
    \A r \in Req :
        scene[r] # << >> =>
            /\ scene[r][1] = SvgOpen
            /\ scene[r][2] = BackgroundRect
            /\ PathCount(scene[r]) <= Len(geo.features)
            /\ \A i \in 1..PathCount(scene[r]) :
                  scene[r][i + 2] =
                      PathEl(FinalPath(r, geo.features[i]),
                             intensityToColor(MapGet(scaleMap[r], geo.features[i].id)))
            /\ \A k \in (PathCount(scene[r]) + 3)..Len(scene[r]) :
                  k = Len(scene[r]) /\ scene[r][k] = SvgClose

\* features in the order id 2, id 1, payload in the order id 1, id 2: the
\* paths follow the features
C10_Witness ==
    \E r \in Req :
        /\ geo.features = <<FeatB, FeatA>>
        /\ Entries(r) = <<Entry(1, 5), Entry(2, 7)>>
        /\ pc[r] = "done"
        /\ resp[r].status = 200
        /\ Len(scene[r]) = 5
        /\ scene[r][3].fill = "#500724"
        /\ scene[r][4].fill = "#dc2626"

====
